---- MODULE Spec2Model ----
(***************************************************************************)
(* Storage-synchronised state containers of more-yew-hooks:                *)
(*   use_local_storage_default        (variant A, value: T, LocalStorage)  *)
(*   use_session_storage_with_listen  (variant B, value: Option<T>,        *)
(*                                     SessionStorage)                     *)
(* One component instance mounts one of the two hooks over a key, uses the *)
(* returned handle (set / delete), receives "storage" events on the window *)
(* and is finally unmounted.  Other execution contexts mutate the same     *)
(* stores; each such mutation queues one "storage" event for this window.  *)
(*                                                                         *)
(* The payload type T is String, as in the hooks' doc examples.            *)
(*                                                                         *)
(* Further specifications, over the same window:                           *)
(*   SpecTwin    a second container of the same hook next to the first     *)
(*   SpecSet     use_btree_set and the handles it returns                  *)
(*   SpecOnline  use_online                                                *)
(***************************************************************************)
EXTENDS Naturals, Sequences, FiniteSets, TLC

\* Bound: storage events queued by other contexts and not yet delivered.
MaxPending == 1

Keys == {"a", "b"}
\* The key the component passes to the hook on its first render; "b" is a
\* key of the same stores that the container does not watch.
HookKeys == {"a"}
StoreKinds == {"local", "session"}
\* Values of T the caller passes to set(); "" is String::default().
Values == {"", "x"}

None == <<>>
Some(v) == <<v>>
Ok(v) == [ok |-> TRUE, val |-> v]
Err(e) == [ok |-> FALSE, err |-> e]

\* T::default() for T = String
Default_T == ""

\* serde_json::to_string(&value) for a String value: the JSON string literal
Ser(v) == "\"" \o v \o "\""

\* Item contents a store slot can hold: JSON string literals, the JSON null,
\* and bytes that are no JSON at all.
RawItems == {Ser(v) : v \in Values} \cup {"null", "{bad"}

\* serde_json::from_str::<T>(raw), T = String: only a JSON string literal parses
FromStr_T(raw) ==
    IF \E v \in Values : Ser(v) = raw
    THEN Ok(CHOOSE v \in Values : Ser(v) = raw)
    ELSE Err("SerdeError")

\* serde_json::from_str::<Option<T>>(raw): null is None, anything else is Some(T)
FromStr_OptT(raw) ==
    IF raw = "null" THEN Ok(None)
    ELSE IF FromStr_T(raw).ok THEN Ok(Some(FromStr_T(raw).val))
    ELSE Err("SerdeError")

\* Result::ok
ResultOk(r) == IF r.ok THEN Some(r.val) ELSE None
\* Option<Option<T>>::flatten
Flatten(o) == IF o = None THEN None ELSE o[1]
\* Option<T>::unwrap_or_default / Result<T>::unwrap_or_default
UnwrapOrDefault(o, d) == IF o = None THEN d ELSE o[1]
ResultUnwrapOrDefault(r, d) == IF r.ok THEN r.val ELSE d

\* What other contexts write under key k: anything under a watched key, a
\* well-formed value under the other one.
ExternalItems(k) == IF k \in HookKeys THEN RawItems ELSE {Ser("x")}

\* A "storage" event is [key, newValue, storageArea], each of which may be null.
\* Events a script builds with new StorageEvent("storage", {key, newValue}):
\* their storageArea is null, and their newValue says nothing about the stores.
SyntheticEvents ==
    [key : {None} \cup {Some(k) : k \in Keys},
     newValue : {Some(Ser("x"))},
     storageArea : {None}]

\* Outcomes of Storage::set: Ok, or serde_json / the backend refusing the write.
SetResults == {"Ok", "SerdeError", "JsError"}

VARIABLES
    storage,    \* [StoreKinds -> [Keys -> None | Some(raw)]]: both backends
    hook,       \* "none" | "local_default" | "session_listen": the hook mounted
    status,     \* "unmounted" | "mounted" | "dropped"
    key,        \* the handle's key (Rc<String>)
    inner,      \* the UseStateHandle's value: T (variant A), Option<T> (variant B)
    listeners,  \* number of "storage" listeners this container has on the window
    pending,    \* storage events queued for this window, oldest first
    last,       \* the handler that ran in the last step, with its inputs
    cellSets,   \* calls of inner.set the last handler made
    reads,      \* keys of the Storage::get calls the last handler made
    raised,     \* whether the last handler let an error escape to its caller
    log,        \* trace records (info!/warn!) the last handler emitted
    twinStatus, \* "unmounted" | "mounted": a second container of the same hook
    twinKey,    \* the second container's key
    twinInner,  \* the second container's UseStateHandle value
    sets,       \* the BTreeSets use_mut_ref allocated (Rc<RefCell<BTreeSet<T>>>)
    setHandles, \* the UseBTreeSetHandle values handed out: [inner, update]
    signals,    \* per call of update() in the last step: the set as it then was
    onLine,     \* navigator.onLine, the platform's connectivity flag
    online,     \* use_online's UseStateHandle<bool> value (FALSE while there is none)
    onlineStatus,   \* "unmounted" | "mounted" | "dropped": use_online's component
    onlineListeners,\* the "online" and "offline" listeners it has on the window
    netPending, \* "online" / "offline" events queued for this window
    lastEvent   \* "none", or the "online" / "offline" event use_online heard last

\* The second container: built by another call of the same hook function in
\* the same window, over the same stores.
twinVars == <<twinStatus, twinKey, twinInner>>

\* The state of use_btree_set's component.
setVars == <<sets, setHandles, signals>>

\* The state of use_online's component, and the platform's connectivity.
onlineVars == <<onLine, online, onlineStatus, onlineListeners, netPending, lastEvent>>

\* What the storage hooks and their handles never touch.
otherHooks == <<setVars, onlineVars>>

\* The state of the storage containers, but for the record of the last step.
storageVars == <<storage, hook, status, key, inner, listeners, pending, cellSets, reads, raised, log>>

vars == <<storage, hook, status, key, inner, listeners, pending, last, cellSets, reads, raised, log,
          twinStatus, twinKey, twinInner, sets, setHandles, signals,
          onLine, online, onlineStatus, onlineListeners, netPending, lastEvent>>

\* The store kind a hook is bound to.
StoreOf(h) == IF h = "local_default" THEN "local" ELSE "session"

\* gloo Storage::get::<T>(key): Err(KeyNotFound) | Err(SerdeError) | Ok(T)
StorageGet_T(s, k) ==
    IF storage[s][k] = None THEN Err("KeyNotFound") ELSE FromStr_T(storage[s][k][1])

\* gloo Storage::get::<Option<T>>(key)
StorageGet_OptT(s, k) ==
    IF storage[s][k] = None THEN Err("KeyNotFound") ELSE FromStr_OptT(storage[s][k][1])

Init ==
    /\ storage = [s \in StoreKinds |-> [k \in Keys |-> None]]
    /\ hook = "none"
    /\ status = "unmounted"
    /\ key = ""
    /\ inner = None
    /\ listeners = 0
    /\ pending = <<>>
    /\ last = [op |-> "init"]
    /\ cellSets = 0
    /\ reads = <<>>
    /\ raised = FALSE
    /\ log = <<>>
    /\ twinStatus = "unmounted"
    /\ twinKey = ""
    /\ twinInner = None
    /\ sets = <<>>
    /\ setHandles = <<>>
    /\ signals = <<>>
    /\ onLine = TRUE
    /\ online = FALSE
    /\ onlineStatus = "unmounted"
    /\ onlineListeners = {}
    /\ netPending = <<>>
    /\ lastEvent = "none"

\* Faulty variant of use_local_storage_default: the listener is added to the window in
\* the hook's body, at every render.
use_local_storage_default_ListenEveryRender(k) ==
    /\ \/ status = "unmounted"
       \/ status = "mounted" /\ hook = "local_default"
    /\ hook' = "local_default"
    /\ status' = "mounted"
    /\ key' = IF status = "unmounted" THEN k ELSE key
    /\ inner' = IF status = "unmounted"
                THEN UnwrapOrDefault(Flatten(ResultOk(StorageGet_OptT("local", k))), Default_T)
                ELSE inner
    /\ listeners' = listeners + 1
    /\ last' = [op |-> IF status = "unmounted" THEN "construct" ELSE "render", key |-> k]
    /\ cellSets' = 0
    /\ reads' = IF status = "unmounted" THEN <<k>> ELSE <<>>
    /\ raised' = FALSE
    /\ log' = <<>>
    /\ UNCHANGED <<storage, pending>>

\* Faulty variant of use_session_storage_with_listen: the state starts absent without
\* the store being read.
use_session_storage_with_listen_NoRead(k) ==
    /\ \/ status = "unmounted"
       \/ status = "mounted" /\ hook = "session_listen"
    /\ hook' = "session_listen"
    /\ status' = "mounted"
    /\ key' = IF status = "unmounted" THEN k ELSE key
    /\ inner' = IF status = "unmounted" THEN None ELSE inner
    /\ listeners' = IF status = "unmounted" THEN listeners + 1 ELSE listeners
    /\ last' = [op |-> IF status = "unmounted" THEN "construct" ELSE "render", key |-> k]
    /\ cellSets' = 0
    /\ reads' = <<>>
    /\ raised' = FALSE
    /\ log' = <<>>
    /\ UNCHANGED <<storage, pending>>

\* Faulty variant of use_local_storage_default: the state is initialised from
\* the store at every render.
use_local_storage_default_ReadEveryRender(k) ==
    /\ \/ status = "unmounted"
       \/ status = "mounted" /\ hook = "local_default"
    /\ hook' = "local_default"
    /\ status' = "mounted"
    /\ key' = IF status = "unmounted" THEN k ELSE key
    /\ inner' = UnwrapOrDefault(Flatten(ResultOk(StorageGet_OptT("local", key'))), Default_T)
    /\ listeners' = IF status = "unmounted" THEN listeners + 1 ELSE listeners
    /\ last' = [op |-> IF status = "unmounted" THEN "construct" ELSE "render", key |-> k]
    /\ cellSets' = 0
    /\ reads' = <<key'>>
    /\ raised' = FALSE
    /\ log' = <<>>
    /\ UNCHANGED <<storage, pending>>

\* use_local_storage_default(key): the hook function, run at every render of
\* the component.  use_state runs its initialiser, use_memo((), ..) stores the
\* key and use_event_with_window registers its listener at the first render
\* only; a later render gets the same state, key and registration back.
use_local_storage_default(k) ==
    /\ \/ status = "unmounted"
       \/ status = "mounted" /\ hook = "local_default"
    /\ hook' = "local_default"
    /\ status' = "mounted"
    /\ key' = IF status = "unmounted" THEN k ELSE key
    /\ inner' = IF status = "unmounted"
                THEN UnwrapOrDefault(Flatten(ResultOk(StorageGet_OptT("local", k))), Default_T)
                ELSE inner
    /\ listeners' = IF status = "unmounted" THEN listeners + 1 ELSE listeners
    /\ last' = [op |-> IF status = "unmounted" THEN "construct" ELSE "render", key |-> k]
    /\ cellSets' = 0
    /\ reads' = IF status = "unmounted" THEN <<k>> ELSE <<>>
    /\ raised' = FALSE
    /\ log' = <<>>
    /\ UNCHANGED <<storage, pending>>

\* Faulty variant of use_session_storage_with_listen: the key is taken from the
\* argument of every render.
use_session_storage_with_listen_KeyPerRender(k) ==
    /\ \/ status = "unmounted"
       \/ status = "mounted" /\ hook = "session_listen"
    /\ hook' = "session_listen"
    /\ status' = "mounted"
    /\ key' = k
    /\ inner' = IF status = "unmounted"
                THEN ResultUnwrapOrDefault(StorageGet_OptT("session", k), None)
                ELSE inner
    /\ listeners' = IF status = "unmounted" THEN listeners + 1 ELSE listeners
    /\ last' = [op |-> IF status = "unmounted" THEN "construct" ELSE "render", key |-> k]
    /\ cellSets' = 0
    /\ reads' = IF status = "unmounted" THEN <<k>> ELSE <<>>
    /\ raised' = FALSE
    /\ log' = <<>>
    /\ UNCHANGED <<storage, pending>>

\* use_session_storage_with_listen(key): the hook function, as above
use_session_storage_with_listen(k) ==
    /\ \/ status = "unmounted"
       \/ status = "mounted" /\ hook = "session_listen"
    /\ hook' = "session_listen"
    /\ status' = "mounted"
    /\ key' = IF status = "unmounted" THEN k ELSE key
    /\ inner' = IF status = "unmounted"
                THEN ResultUnwrapOrDefault(StorageGet_OptT("session", k), None)
                ELSE inner
    /\ listeners' = IF status = "unmounted" THEN listeners + 1 ELSE listeners
    /\ last' = [op |-> IF status = "unmounted" THEN "construct" ELSE "render", key |-> k]
    /\ cellSets' = 0
    /\ reads' = IF status = "unmounted" THEN <<k>> ELSE <<>>
    /\ raised' = FALSE
    /\ log' = <<>>
    /\ UNCHANGED <<storage, pending>>

\* Faulty variant of UseLocalStorageDefaultHandle::set: the cell is updated whatever
\* LocalStorage::set returned.
UseLocalStorageDefaultHandle_set_Unchecked(value, res) ==
    /\ status = "mounted" /\ hook = "local_default"
    /\ storage' = IF res = "Ok"
                  THEN [storage EXCEPT !["local"][key] = Some(Ser(value))]
                  ELSE storage
    /\ inner' = value
    /\ cellSets' = 1
    /\ log' = <<[level |-> "info", what |-> "set", key |-> key]>>
    /\ reads' = <<>>
    /\ raised' = FALSE
    /\ last' = [op |-> "set", value |-> value, res |-> res]
    /\ UNCHANGED <<hook, status, key, listeners, pending>>

\* UseLocalStorageDefaultHandle::set(value); res is what LocalStorage::set returns
UseLocalStorageDefaultHandle_set(value, res) ==
    /\ status = "mounted" /\ hook = "local_default"
    /\ storage' = IF res = "Ok"
                  THEN [storage EXCEPT !["local"][key] = Some(Ser(value))]
                  ELSE storage
    /\ inner' = IF res = "Ok" THEN value ELSE inner
    /\ cellSets' = IF res = "Ok" THEN 1 ELSE 0
    /\ log' = IF res = "Ok" THEN <<[level |-> "info", what |-> "set", key |-> key]>> ELSE <<>>
    /\ reads' = <<>>
    /\ raised' = FALSE
    /\ last' = [op |-> "set", value |-> value, res |-> res]
    /\ UNCHANGED <<hook, status, key, listeners, pending>>

\* Faulty variant of UseLocalStorageDefaultHandle::delete: the key is removed and the
\* cell is left as it was.
UseLocalStorageDefaultHandle_delete_NoReset ==
    /\ status = "mounted" /\ hook = "local_default"
    /\ storage' = [storage EXCEPT !["local"][key] = None]
    /\ inner' = inner
    /\ cellSets' = 0
    /\ log' = <<[level |-> "info", what |-> "delete", key |-> key]>>
    /\ reads' = <<>>
    /\ raised' = FALSE
    /\ last' = [op |-> "delete", had |-> storage[StoreOf(hook)][key] # None]
    /\ UNCHANGED <<hook, status, key, listeners, pending>>

\* UseLocalStorageDefaultHandle::delete()
UseLocalStorageDefaultHandle_delete ==
    /\ status = "mounted" /\ hook = "local_default"
    /\ storage' = [storage EXCEPT !["local"][key] = None]
    /\ inner' = Default_T
    /\ cellSets' = 1
    /\ log' = <<[level |-> "info", what |-> "delete", key |-> key]>>
    /\ reads' = <<>>
    /\ raised' = FALSE
    /\ last' = [op |-> "delete", had |-> storage[StoreOf(hook)][key] # None]
    /\ UNCHANGED <<hook, status, key, listeners, pending>>

\* Faulty variant of UseSessionStorageWithListenHandle::set: the value is persisted and
\* the cell is not updated.
UseSessionStorageWithListenHandle_set_NoCellUpdate(value, res) ==
    /\ status = "mounted" /\ hook = "session_listen"
    /\ storage' = IF res = "Ok"
                  THEN [storage EXCEPT !["session"][key] = Some(Ser(value))]
                  ELSE storage
    /\ inner' = inner
    /\ cellSets' = 0
    /\ log' = <<>>
    /\ reads' = <<>>
    /\ raised' = FALSE
    /\ last' = [op |-> "set", value |-> value, res |-> res]
    /\ UNCHANGED <<hook, status, key, listeners, pending>>

\* UseSessionStorageWithListenHandle::set(value); res is what SessionStorage::set returns
UseSessionStorageWithListenHandle_set(value, res) ==
    /\ status = "mounted" /\ hook = "session_listen"
    /\ storage' = IF res = "Ok"
                  THEN [storage EXCEPT !["session"][key] = Some(Ser(value))]
                  ELSE storage
    /\ inner' = IF res = "Ok" THEN Some(value) ELSE inner
    /\ cellSets' = IF res = "Ok" THEN 1 ELSE 0
    /\ log' = <<>>
    /\ reads' = <<>>
    /\ raised' = FALSE
    /\ last' = [op |-> "set", value |-> value, res |-> res]
    /\ UNCHANGED <<hook, status, key, listeners, pending>>

\* Faulty variant of UseSessionStorageWithListenHandle::delete: the cell is reset and
\* the key stays in the store.
UseSessionStorageWithListenHandle_delete_NoRemove ==
    /\ status = "mounted" /\ hook = "session_listen"
    /\ storage' = storage
    /\ inner' = None
    /\ cellSets' = 1
    /\ log' = <<>>
    /\ reads' = <<>>
    /\ raised' = FALSE
    /\ last' = [op |-> "delete", had |-> storage[StoreOf(hook)][key] # None]
    /\ UNCHANGED <<hook, status, key, listeners, pending>>

\* UseSessionStorageWithListenHandle::delete()
UseSessionStorageWithListenHandle_delete ==
    /\ status = "mounted" /\ hook = "session_listen"
    /\ storage' = [storage EXCEPT !["session"][key] = None]
    /\ inner' = None
    /\ cellSets' = 1
    /\ log' = <<>>
    /\ reads' = <<>>
    /\ raised' = FALSE
    /\ last' = [op |-> "delete", had |-> storage[StoreOf(hook)][key] # None]
    /\ UNCHANGED <<hook, status, key, listeners, pending>>

\* Faulty variant of the local listener: the event's key is not compared with the
\* container's key.
LocalStorageListener_NoKeyCheck(e) ==
    IF e.key = None
    THEN inner' = inner /\ cellSets' = 0 /\ log' = <<>> /\ reads' = <<>>
    ELSE IF Some("local") # e.storageArea
    THEN /\ inner' = inner /\ cellSets' = 0 /\ reads' = <<>>
         /\ log' = <<[level |-> "warn", what |-> "collision", key |-> e.key[1]]>>
    ELSE /\ inner' = ResultUnwrapOrDefault(StorageGet_T("local", key), Default_T)
         /\ cellSets' = 1
         /\ reads' = <<key>>
         /\ log' = <<[level |-> "info", what |-> "event", key |-> e.key[1]]>>

\* Faulty variant of the local listener: the cell is set from the event's newValue
\* and the store is not read again.
LocalStorageListener_FromNewValue(e) ==
    IF e.key = None
    THEN inner' = inner /\ cellSets' = 0 /\ log' = <<>> /\ reads' = <<>>
    ELSE IF Some("local") # e.storageArea
    THEN /\ inner' = inner /\ cellSets' = 0 /\ reads' = <<>>
         /\ log' = <<[level |-> "warn", what |-> "collision", key |-> e.key[1]]>>
    ELSE IF e.key[1] = key
    THEN /\ inner' = IF e.newValue = None THEN Default_T
                     ELSE ResultUnwrapOrDefault(FromStr_T(e.newValue[1]), Default_T)
         /\ cellSets' = 1
         /\ reads' = <<>>
         /\ log' = <<[level |-> "info", what |-> "event", key |-> e.key[1]]>>
    ELSE inner' = inner /\ cellSets' = 0 /\ log' = <<>> /\ reads' = <<>>

\* Faulty variant of the local listener: an event without a key (the store was
\* cleared) makes the listener read the key again.
LocalStorageListener_ReconcileOnClear(e) ==
    IF e.key = None
    THEN /\ inner' = ResultUnwrapOrDefault(StorageGet_T("local", key), Default_T)
         /\ cellSets' = 1
         /\ reads' = <<key>>
         /\ log' = <<[level |-> "info", what |-> "event", key |-> key]>>
    ELSE IF Some("local") # e.storageArea
    THEN /\ inner' = inner /\ cellSets' = 0 /\ reads' = <<>>
         /\ log' = <<[level |-> "warn", what |-> "collision", key |-> e.key[1]]>>
    ELSE IF e.key[1] = key
    THEN /\ inner' = ResultUnwrapOrDefault(StorageGet_T("local", key), Default_T)
         /\ cellSets' = 1
         /\ reads' = <<key>>
         /\ log' = <<[level |-> "info", what |-> "event", key |-> e.key[1]]>>
    ELSE inner' = inner /\ cellSets' = 0 /\ log' = <<>> /\ reads' = <<>>

\* Faulty variant of the local listener: when the key cannot be read the cell
\* keeps its value.
LocalStorageListener_KeepOnError(e) ==
    IF e.key = None
    THEN inner' = inner /\ cellSets' = 0 /\ log' = <<>> /\ reads' = <<>>
    ELSE IF Some("local") # e.storageArea
    THEN /\ inner' = inner /\ cellSets' = 0 /\ reads' = <<>>
         /\ log' = <<[level |-> "warn", what |-> "collision", key |-> e.key[1]]>>
    ELSE IF e.key[1] = key
    THEN /\ inner' = ResultUnwrapOrDefault(StorageGet_T("local", key), inner)
         /\ cellSets' = 1
         /\ reads' = <<key>>
         /\ log' = <<[level |-> "info", what |-> "event", key |-> e.key[1]]>>
    ELSE inner' = inner /\ cellSets' = 0 /\ log' = <<>> /\ reads' = <<>>

\* The closure use_local_storage_default hands to use_event_with_window
LocalStorageListener(e) ==
    IF e.key = None
    THEN inner' = inner /\ cellSets' = 0 /\ log' = <<>> /\ reads' = <<>>
    ELSE IF Some("local") # e.storageArea
    THEN /\ inner' = inner /\ cellSets' = 0 /\ reads' = <<>>
         /\ log' = <<[level |-> "warn", what |-> "collision", key |-> e.key[1]]>>
    ELSE IF e.key[1] = key
    THEN /\ inner' = ResultUnwrapOrDefault(StorageGet_T("local", key), Default_T)
         /\ cellSets' = 1
         /\ reads' = <<key>>
         /\ log' = <<[level |-> "info", what |-> "event", key |-> e.key[1]]>>
    ELSE inner' = inner /\ cellSets' = 0 /\ log' = <<>> /\ reads' = <<>>

\* Faulty variant of the session listener: a matching event sets the cell to the value
\* the closure captured, not to what the store holds.
SessionStorageListener_NoReread(e) ==
    IF e.key = None
    THEN inner' = inner /\ cellSets' = 0 /\ log' = <<>> /\ reads' = <<>>
    ELSE IF Some("session") # e.storageArea
    THEN /\ inner' = inner /\ cellSets' = 0 /\ reads' = <<>>
         /\ log' = <<[level |-> "warn", what |-> "collision", key |-> e.key[1]]>>
    ELSE IF e.key[1] = key
    THEN /\ inner' = inner
         /\ cellSets' = 1
         /\ reads' = <<>>
         /\ log' = <<[level |-> "info", what |-> "event", key |-> e.key[1]]>>
    ELSE inner' = inner /\ cellSets' = 0 /\ log' = <<>> /\ reads' = <<>>

\* Faulty variant of the session listener: the event's storageArea is not checked.
SessionStorageListener_NoAreaCheck(e) ==
    IF e.key = None
    THEN inner' = inner /\ cellSets' = 0 /\ log' = <<>> /\ reads' = <<>>
    ELSE IF e.key[1] = key
    THEN /\ inner' = ResultUnwrapOrDefault(StorageGet_OptT("session", key), None)
         /\ cellSets' = 1
         /\ reads' = <<key>>
         /\ log' = <<[level |-> "info", what |-> "event", key |-> e.key[1]]>>
    ELSE inner' = inner /\ cellSets' = 0 /\ log' = <<>> /\ reads' = <<>>

\* Faulty variant of the session listener: the cell is set only when the value
\* read differs from the one it holds.
SessionStorageListener_SkipEqual(e) ==
    IF e.key = None
    THEN inner' = inner /\ cellSets' = 0 /\ log' = <<>> /\ reads' = <<>>
    ELSE IF Some("session") # e.storageArea
    THEN /\ inner' = inner /\ cellSets' = 0 /\ reads' = <<>>
         /\ log' = <<[level |-> "warn", what |-> "collision", key |-> e.key[1]]>>
    ELSE IF e.key[1] = key
    THEN /\ inner' = ResultUnwrapOrDefault(StorageGet_OptT("session", key), None)
         /\ cellSets' = IF inner' = inner THEN 0 ELSE 1
         /\ reads' = <<key>>
         /\ log' = <<[level |-> "info", what |-> "event", key |-> e.key[1]]>>
    ELSE inner' = inner /\ cellSets' = 0 /\ log' = <<>> /\ reads' = <<>>

\* The closure use_session_storage_with_listen hands to use_event_with_window
SessionStorageListener(e) ==
    IF e.key = None
    THEN inner' = inner /\ cellSets' = 0 /\ log' = <<>> /\ reads' = <<>>
    ELSE IF Some("session") # e.storageArea
    THEN /\ inner' = inner /\ cellSets' = 0 /\ reads' = <<>>
         /\ log' = <<[level |-> "warn", what |-> "collision", key |-> e.key[1]]>>
    ELSE IF e.key[1] = key
    THEN /\ inner' = ResultUnwrapOrDefault(StorageGet_OptT("session", key), None)
         /\ cellSets' = 1
         /\ reads' = <<key>>
         /\ log' = <<[level |-> "info", what |-> "event", key |-> e.key[1]]>>
    ELSE inner' = inner /\ cellSets' = 0 /\ log' = <<>> /\ reads' = <<>>

\* The window dispatches e to the "storage" listeners registered on it.
WindowDispatch(e) ==
    /\ IF listeners = 0 THEN inner' = inner /\ cellSets' = 0 /\ log' = <<>> /\ reads' = <<>>
       ELSE IF hook = "local_default" THEN LocalStorageListener(e)
       ELSE SessionStorageListener(e)
    /\ raised' = FALSE
    /\ last' = [op |-> "event", ev |-> e]
    /\ UNCHANGED <<storage, hook, status, key, listeners>>

\* The browser delivers the oldest queued storage event.
DeliverStorageEvent ==
    /\ pending # <<>>
    /\ pending' = Tail(pending)
    /\ WindowDispatch(Head(pending))

\* window.dispatchEvent(e) of a synthetic event: the listeners run at once
DispatchSyntheticEvent(e) ==
    /\ pending' = pending
    /\ WindowDispatch(e)

\* Another context calls setItem(k, raw) on store s; the browser queues the event
\* (it fires none when the item already holds raw).
ExternalSetItem(s, k, raw) ==
    /\ Len(pending) < MaxPending
    /\ storage[s][k] # Some(raw)
    /\ storage' = [storage EXCEPT ![s][k] = Some(raw)]
    /\ pending' = Append(pending, [key |-> Some(k), newValue |-> Some(raw), storageArea |-> Some(s)])
    /\ last' = [op |-> "external"]
    /\ cellSets' = 0 /\ raised' = FALSE /\ log' = <<>> /\ reads' = <<>>
    /\ UNCHANGED <<hook, status, key, inner, listeners>>

\* Another context calls removeItem(k) on store s.
ExternalRemoveItem(s, k) ==
    /\ Len(pending) < MaxPending
    /\ storage[s][k] # None
    /\ storage' = [storage EXCEPT ![s][k] = None]
    /\ pending' = Append(pending, [key |-> Some(k), newValue |-> None, storageArea |-> Some(s)])
    /\ last' = [op |-> "external"]
    /\ cellSets' = 0 /\ raised' = FALSE /\ log' = <<>> /\ reads' = <<>>
    /\ UNCHANGED <<hook, status, key, inner, listeners>>

\* Another context calls clear() on store s: one event with a null key.
ExternalClear(s) ==
    /\ Len(pending) < MaxPending
    /\ \E k \in Keys : storage[s][k] # None
    /\ storage' = [storage EXCEPT ![s] = [k \in Keys |-> None]]
    /\ pending' = Append(pending, [key |-> None, newValue |-> None, storageArea |-> Some(s)])
    /\ last' = [op |-> "external"]
    /\ cellSets' = 0 /\ raised' = FALSE /\ log' = <<>> /\ reads' = <<>>
    /\ UNCHANGED <<hook, status, key, inner, listeners>>

\* The component is destroyed: use_event_with_window's effect destructor
\* drops the EventListener.
Unmount ==
    /\ status = "mounted"
    /\ status' = "dropped"
    /\ listeners' = listeners - 1
    /\ last' = [op |-> "unmount"]
    /\ cellSets' = 0 /\ raised' = FALSE /\ log' = <<>> /\ reads' = <<>>
    /\ UNCHANGED <<storage, hook, key, inner, pending>>

\* One container in the window: no second container is ever built.
(***************************************************************************)
(* A second container in the same window.  Another component calls the     *)
(* same hook function, over any key; it reads and writes the same stores,  *)
(* has a listener of its own on the window, and stays for as long as the   *)
(* window does.  Its set and delete go straight to the store: the browser  *)
(* raises no "storage" event in the window that made the change.           *)
(***************************************************************************)

\* The step is one of the second container: the first one's handlers did not run.
TwinFrame(op) ==
    /\ last' = op
    /\ cellSets' = 0 /\ raised' = FALSE /\ log' = <<>> /\ reads' = <<>>
    /\ UNCHANGED <<hook, status, key, inner, listeners, pending>>

\* use_local_storage_default(k) / use_session_storage_with_listen(k), first
\* render of the second component
Twin_use_storage(k) ==
    /\ status = "mounted" /\ twinStatus = "unmounted"
    /\ twinStatus' = "mounted"
    /\ twinKey' = k
    /\ twinInner' = IF hook = "local_default"
                    THEN UnwrapOrDefault(Flatten(ResultOk(StorageGet_OptT("local", k))), Default_T)
                    ELSE ResultUnwrapOrDefault(StorageGet_OptT("session", k), None)
    /\ storage' = storage
    /\ TwinFrame([op |-> "twin_construct", key |-> k])

\* set(value) on the second container's handle
TwinHandle_set(value, res) ==
    /\ twinStatus = "mounted"
    /\ storage' = IF res = "Ok"
                  THEN [storage EXCEPT ![StoreOf(hook)][twinKey] = Some(Ser(value))]
                  ELSE storage
    /\ twinInner' = IF res # "Ok" THEN twinInner
                    ELSE IF hook = "local_default" THEN value ELSE Some(value)
    /\ UNCHANGED <<twinStatus, twinKey>>
    /\ TwinFrame([op |-> "twin_set", value |-> value, res |-> res])

\* delete() on the second container's handle
TwinHandle_delete ==
    /\ twinStatus = "mounted"
    /\ storage' = [storage EXCEPT ![StoreOf(hook)][twinKey] = None]
    /\ twinInner' = IF hook = "local_default" THEN Default_T ELSE None
    /\ UNCHANGED <<twinStatus, twinKey>>
    /\ TwinFrame([op |-> "twin_delete"])

\* The second container's listener closure hears e as well.
TwinListener(e) ==
    /\ twinInner' =
         IF twinStatus # "mounted" \/ e.key = None THEN twinInner
         ELSE IF Some(StoreOf(hook)) # e.storageArea THEN twinInner
         ELSE IF e.key[1] # twinKey THEN twinInner
         ELSE IF hook = "local_default"
              THEN ResultUnwrapOrDefault(StorageGet_T("local", twinKey), Default_T)
              ELSE ResultUnwrapOrDefault(StorageGet_OptT("session", twinKey), None)
    /\ UNCHANGED <<twinStatus, twinKey>>

\* Faulty variant of the handles' equality: the keys are compared as well.
UseLocalStorageDefaultHandle_eq_WithKey(self, other) ==
    self.inner = other.inner /\ self.key = other.key

\* impl PartialEq for UseLocalStorageDefaultHandle: *self.inner == *other.inner
UseLocalStorageDefaultHandle_eq(self, other) == self.inner = other.inner

\* impl PartialEq for UseSessionStorageWithListenHandle: *self.inner == *other.inner
UseSessionStorageWithListenHandle_eq(self, other) == self.inner = other.inner

\* The handles the two hook calls returned: { inner, key }
Handle == [inner |-> inner, key |-> key]
TwinHandle == [inner |-> twinInner, key |-> twinKey]

Next ==
    \/ \E k \in Keys : (status = "unmounted" => k \in HookKeys) /\ use_local_storage_default(k) /\ UNCHANGED <<twinVars, otherHooks>>
    \/ \E k \in Keys : (status = "unmounted" => k \in HookKeys) /\ use_session_storage_with_listen(k) /\ UNCHANGED <<twinVars, otherHooks>>
    \/ \E v \in Values, res \in SetResults : UseLocalStorageDefaultHandle_set(v, res) /\ UNCHANGED <<twinVars, otherHooks>>
    \/ UseLocalStorageDefaultHandle_delete /\ UNCHANGED <<twinVars, otherHooks>>
    \/ \E v \in Values, res \in SetResults : UseSessionStorageWithListenHandle_set(v, res) /\ UNCHANGED <<twinVars, otherHooks>>
    \/ UseSessionStorageWithListenHandle_delete /\ UNCHANGED <<twinVars, otherHooks>>
    \/ DeliverStorageEvent /\ UNCHANGED <<twinVars, otherHooks>>
    \/ \E e \in SyntheticEvents : DispatchSyntheticEvent(e) /\ UNCHANGED <<twinVars, otherHooks>>
    \/ \E s \in StoreKinds, k \in Keys : \E raw \in ExternalItems(k) : ExternalSetItem(s, k, raw) /\ UNCHANGED <<twinVars, otherHooks>>
    \/ \E s \in StoreKinds, k \in Keys : ExternalRemoveItem(s, k) /\ UNCHANGED <<twinVars, otherHooks>>
    \/ \E s \in StoreKinds : ExternalClear(s) /\ UNCHANGED <<twinVars, otherHooks>>
    \/ Unmount /\ UNCHANGED <<twinVars, otherHooks>>

Spec == Init /\ [][Next]_vars

\* The browser's event loop delivers every storage event it has queued.
SpecFair == Spec /\ WF_vars(DeliverStorageEvent /\ UNCHANGED <<twinVars, otherHooks>>)

\* Two containers in the window.  Other contexts mutate the store the two
\* containers share, while the first container is mounted.
NextTwin ==
    \/ \E k \in Keys : (status = "unmounted" => k \in HookKeys) /\ use_local_storage_default(k) /\ UNCHANGED <<twinVars, otherHooks>>
    \/ \E k \in Keys : (status = "unmounted" => k \in HookKeys) /\ use_session_storage_with_listen(k) /\ UNCHANGED <<twinVars, otherHooks>>
    \/ \E v \in Values, res \in SetResults : UseLocalStorageDefaultHandle_set(v, res) /\ UNCHANGED <<twinVars, otherHooks>>
    \/ UseLocalStorageDefaultHandle_delete /\ UNCHANGED <<twinVars, otherHooks>>
    \/ \E v \in Values, res \in SetResults : UseSessionStorageWithListenHandle_set(v, res) /\ UNCHANGED <<twinVars, otherHooks>>
    \/ UseSessionStorageWithListenHandle_delete /\ UNCHANGED <<twinVars, otherHooks>>
    \/ \E k \in Keys : Twin_use_storage(k) /\ UNCHANGED otherHooks
    \/ \E v \in Values, res \in SetResults : TwinHandle_set(v, res) /\ UNCHANGED otherHooks
    \/ TwinHandle_delete /\ UNCHANGED otherHooks
    \/ DeliverStorageEvent /\ TwinListener(Head(pending)) /\ UNCHANGED otherHooks
    \/ \E e \in SyntheticEvents : DispatchSyntheticEvent(e) /\ TwinListener(e) /\ UNCHANGED otherHooks
    \/ \E k \in Keys : \E raw \in ExternalItems(k) : status = "mounted" /\ ExternalSetItem(StoreOf(hook), k, raw) /\ UNCHANGED <<twinVars, otherHooks>>
    \/ \E k \in Keys : status = "mounted" /\ ExternalRemoveItem(StoreOf(hook), k) /\ UNCHANGED <<twinVars, otherHooks>>
    \/ status = "mounted" /\ ExternalClear(StoreOf(hook)) /\ UNCHANGED <<twinVars, otherHooks>>
    \/ Unmount /\ UNCHANGED <<twinVars, otherHooks>>

SpecTwin == Init /\ [][NextTwin]_vars

(***************************************************************************)
(* use_btree_set: a BTreeSet behind Rc<RefCell<..>>, shared by the handles  *)
(* the hook returns and their clones, with use_update's closure to ask for  *)
(* a re-render of the component.                                            *)
(*                                                                          *)
(* An element is <<k, tag>>; T's Eq and Ord look at k only, so two elements *)
(* with the same k are equal to the set and still told apart by tag.        *)
(***************************************************************************)

\* Bound: handles in existence (returned by the hook's renders, or cloned).
MaxHandles == 3

Elems == {<<1, "p">>, <<1, "q">>, <<2, "p">>}

\* T's Eq
ElemEq(x, y) == x[1] = y[1]

\* The values a BTreeSet<T> can have: no two elements equal.
BTreeSets == {S \in SUBSET Elems : \A x, y \in S : ElemEq(x, y) => x = y}

\* What a component passes as initial_value.
InitialSets == {{}, {<<1, "p">>, <<2, "p">>}}

\* Predicates a caller passes to retain, as the set of elements they accept.
Predicates == {{}, {<<1, "p">>, <<1, "q">>}, Elems}

\* BTreeSet::insert: the set is left alone when it has an equal element
BTreeSet_insert(S, v) == IF \E x \in S : ElemEq(x, v) THEN S ELSE S \cup {v}
\* BTreeSet::replace: the equal element, if any, gives way to v
BTreeSet_replace(S, v) == {x \in S : ~ElemEq(x, v)} \cup {v}
\* BTreeSet::remove
BTreeSet_remove(S, v) == {x \in S : ~ElemEq(x, v)}
\* BTreeSet::retain
BTreeSet_retain(S, f) == {x \in S : x \in f}
\* BTreeSet == BTreeSet: equal lengths and pairwise equal elements, in order
BTreeSet_eq(S, R) == {x[1] : x \in S} = {x[1] : x \in R}

\* The set a handle's inner points to.
Current(h) == sets[setHandles[h].inner]

\* use_btree_set(initial_value): use_mut_ref allocates the set at the first
\* render and returns the same Rc at every later one, where initial_value is
\* dropped; each render returns a handle.
use_btree_set(initial_value) ==
    /\ Len(setHandles) < MaxHandles
    /\ sets' = IF sets = <<>> THEN <<initial_value>> ELSE sets
    /\ setHandles' = Append(setHandles, [inner |-> 1, update |-> 1])
    /\ signals' = <<>>
    /\ last' = [op |-> IF sets = <<>> THEN "construct" ELSE "render", initial |-> initial_value]
    /\ UNCHANGED <<storageVars, twinVars, onlineVars>>

\* UseBTreeSetHandle::current: a borrow of the set, and nothing else
UseBTreeSetHandle_current(h) ==
    /\ h \in DOMAIN setHandles
    /\ sets' = [sets EXCEPT ![setHandles[h].inner] = @]
    /\ signals' = <<>>
    /\ last' = [op |-> "current", h |-> h, ret |-> Current(h)]
    /\ UNCHANGED <<setHandles, storageVars, twinVars, onlineVars>>

\* UseBTreeSetHandle::set
UseBTreeSetHandle_set(h, set) ==
    /\ h \in DOMAIN setHandles
    /\ sets' = [sets EXCEPT ![setHandles[h].inner] = set]
    /\ signals' = <<sets'[setHandles[h].inner]>>
    /\ last' = [op |-> "set", h |-> h, arg |-> set]
    /\ UNCHANGED <<setHandles, storageVars, twinVars, onlineVars>>

\* Faulty variant of UseBTreeSetHandle::insert: update() is called only when
\* the value was not in the set.
UseBTreeSetHandle_insert_SignalIfNew(h, value) ==
    /\ h \in DOMAIN setHandles
    /\ sets' = [sets EXCEPT ![setHandles[h].inner] = BTreeSet_insert(@, value)]
    /\ signals' = IF sets'[setHandles[h].inner] # Current(h) THEN <<sets'[setHandles[h].inner]>> ELSE <<>>
    /\ last' = [op |-> "insert", h |-> h, arg |-> value, ret |-> ~\E x \in Current(h) : ElemEq(x, value)]
    /\ UNCHANGED <<setHandles, storageVars, twinVars, onlineVars>>

\* UseBTreeSetHandle::insert; returns whether the value was newly inserted
UseBTreeSetHandle_insert(h, value) ==
    /\ h \in DOMAIN setHandles
    /\ sets' = [sets EXCEPT ![setHandles[h].inner] = BTreeSet_insert(@, value)]
    /\ signals' = <<sets'[setHandles[h].inner]>>
    /\ last' = [op |-> "insert", h |-> h, arg |-> value, ret |-> ~\E x \in Current(h) : ElemEq(x, value)]
    /\ UNCHANGED <<setHandles, storageVars, twinVars, onlineVars>>

\* UseBTreeSetHandle::replace; returns the element replaced, if any
UseBTreeSetHandle_replace(h, value) ==
    /\ h \in DOMAIN setHandles
    /\ sets' = [sets EXCEPT ![setHandles[h].inner] = BTreeSet_replace(@, value)]
    /\ signals' = <<sets'[setHandles[h].inner]>>
    /\ last' = [op |-> "replace", h |-> h, arg |-> value, ret |-> {x \in Current(h) : ElemEq(x, value)}]
    /\ UNCHANGED <<setHandles, storageVars, twinVars, onlineVars>>

\* UseBTreeSetHandle::remove; returns whether the value was in the set
UseBTreeSetHandle_remove(h, value) ==
    /\ h \in DOMAIN setHandles
    /\ sets' = [sets EXCEPT ![setHandles[h].inner] = BTreeSet_remove(@, value)]
    /\ signals' = <<sets'[setHandles[h].inner]>>
    /\ last' = [op |-> "remove", h |-> h, arg |-> value, ret |-> \E x \in Current(h) : ElemEq(x, value)]
    /\ UNCHANGED <<setHandles, storageVars, twinVars, onlineVars>>

\* UseBTreeSetHandle::retain
UseBTreeSetHandle_retain(h, f) ==
    /\ h \in DOMAIN setHandles
    /\ sets' = [sets EXCEPT ![setHandles[h].inner] = BTreeSet_retain(@, f)]
    /\ signals' = <<sets'[setHandles[h].inner]>>
    /\ last' = [op |-> "retain", h |-> h, arg |-> f]
    /\ UNCHANGED <<setHandles, storageVars, twinVars, onlineVars>>

\* UseBTreeSetHandle::clear
UseBTreeSetHandle_clear(h) ==
    /\ h \in DOMAIN setHandles
    /\ sets' = [sets EXCEPT ![setHandles[h].inner] = {}]
    /\ signals' = <<sets'[setHandles[h].inner]>>
    /\ last' = [op |-> "clear", h |-> h]
    /\ UNCHANGED <<setHandles, storageVars, twinVars, onlineVars>>

\* Faulty variant of Clone: the clone gets a copy of the set.
UseBTreeSetHandle_clone_Deep(h) ==
    /\ h \in DOMAIN setHandles
    /\ Len(setHandles) < MaxHandles
    /\ sets' = Append(sets, Current(h))
    /\ setHandles' = Append(setHandles, [inner |-> Len(sets) + 1, update |-> setHandles[h].update])
    /\ signals' = <<>>
    /\ last' = [op |-> "clone", h |-> h]
    /\ UNCHANGED <<storageVars, twinVars, onlineVars>>

\* impl Clone for UseBTreeSetHandle: both Rc's are cloned
UseBTreeSetHandle_clone(h) ==
    /\ h \in DOMAIN setHandles
    /\ Len(setHandles) < MaxHandles
    /\ setHandles' = Append(setHandles, [inner |-> setHandles[h].inner, update |-> setHandles[h].update])
    /\ signals' = <<>>
    /\ last' = [op |-> "clone", h |-> h]
    /\ UNCHANGED <<sets, storageVars, twinVars, onlineVars>>

\* impl PartialEq for UseBTreeSetHandle: *self.inner == *other.inner
UseBTreeSetHandle_eq(self, other) == BTreeSet_eq(sets[self.inner], sets[other.inner])

Handles == 1..MaxHandles

NextSet ==
    \/ \E initial_value \in InitialSets : use_btree_set(initial_value)
    \/ \E h \in Handles : UseBTreeSetHandle_current(h)
    \/ \E h \in Handles, set \in BTreeSets : UseBTreeSetHandle_set(h, set)
    \/ \E h \in Handles, value \in Elems : UseBTreeSetHandle_insert(h, value)
    \/ \E h \in Handles, value \in Elems : UseBTreeSetHandle_replace(h, value)
    \/ \E h \in Handles, value \in Elems : UseBTreeSetHandle_remove(h, value)
    \/ \E h \in Handles, f \in Predicates : UseBTreeSetHandle_retain(h, f)
    \/ \E h \in Handles : UseBTreeSetHandle_clear(h)
    \/ \E h \in Handles : UseBTreeSetHandle_clone(h)

SpecSet == Init /\ [][NextSet]_vars

(***************************************************************************)
(* use_online: a bool cell initialised from navigator.onLine, set to true   *)
(* by the window's "online" events and to false by its "offline" events.    *)
(* The browser queues one such event each time the connectivity changes;    *)
(* scripts may dispatch either event at any time.                           *)
(***************************************************************************)

\* Bound: connectivity events queued by the browser and not yet delivered.
MaxNetPending == 2

ConnectivityEvents == {"online", "offline"}

\* A step of use_online's component or of the platform: the other hooks'
\* state is left alone.
OnlineFrame == UNCHANGED <<storageVars, twinVars, setVars>>

\* use_online(): use_state reads navigator.onLine at the first render, and the
\* two use_event_with_window calls register their listeners then; a later
\* render returns the same cell.
use_online ==
    /\ onlineStatus \in {"unmounted", "mounted"}
    /\ onlineStatus' = "mounted"
    /\ online' = IF onlineStatus = "unmounted" THEN onLine ELSE online
    /\ onlineListeners' = IF onlineStatus = "unmounted" THEN ConnectivityEvents ELSE onlineListeners
    /\ last' = [op |-> IF onlineStatus = "unmounted" THEN "construct" ELSE "render"]
    /\ UNCHANGED <<onLine, netPending, lastEvent>>
    /\ OnlineFrame

\* Faulty variant of the "online" closure: the cell is flipped.
OnlineListener_Toggle == online' = ~online

\* The closure registered for "online": online.set(true)
OnlineListener == online' = TRUE

\* The closure registered for "offline": online.set(false)
OfflineListener == online' = FALSE

\* The window dispatches the event named name to the listeners registered for it.
WindowDispatchConnectivity(name) ==
    /\ IF name \notin onlineListeners THEN UNCHANGED <<online, lastEvent>>
       ELSE /\ IF name = "online" THEN OnlineListener ELSE OfflineListener
            /\ lastEvent' = name
    /\ last' = [op |-> "net_event", name |-> name, heard |-> name \in onlineListeners]
    /\ UNCHANGED <<onLine, onlineStatus, onlineListeners>>
    /\ OnlineFrame

\* The connectivity changes: navigator.onLine flips and the browser queues the
\* event that goes with the new value.
ConnectivityChange ==
    /\ Len(netPending) < MaxNetPending
    /\ onLine' = ~onLine
    /\ netPending' = Append(netPending, IF onLine THEN "offline" ELSE "online")
    /\ last' = [op |-> "platform"]
    /\ UNCHANGED <<online, onlineStatus, onlineListeners, lastEvent>>
    /\ OnlineFrame

\* The browser delivers the oldest queued connectivity event.
DeliverConnectivityEvent ==
    /\ netPending # <<>>
    /\ netPending' = Tail(netPending)
    /\ WindowDispatchConnectivity(Head(netPending))

\* window.dispatchEvent(new Event(name))
DispatchConnectivityEvent(name) ==
    /\ netPending' = netPending
    /\ WindowDispatchConnectivity(name)

\* use_online's component is destroyed: both listeners are dropped.
UnmountOnline ==
    /\ onlineStatus = "mounted"
    /\ onlineStatus' = "dropped"
    /\ onlineListeners' = {}
    /\ last' = [op |-> "unmount"]
    /\ UNCHANGED <<onLine, online, netPending, lastEvent>>
    /\ OnlineFrame

NextOnline ==
    \/ use_online
    \/ ConnectivityChange
    \/ DeliverConnectivityEvent
    \/ \E name \in ConnectivityEvents : DispatchConnectivityEvent(name)
    \/ UnmountOnline

SpecOnline == Init /\ [][NextOnline]_vars

(***************************************************************************)
(* Vocabulary of the properties                                            *)
(***************************************************************************)

Mounted == status = "mounted"
OwnStore == StoreOf(hook)
OtherStore == IF OwnStore = "local" THEN "session" ELSE "local"
\* The item the container's own store holds under the container's key.
OwnItem == storage[OwnStore][key]
\* v as the container of hook h holds it: v itself (variant A), present(v) (B).
Held(h, v) == IF h = "local_default" THEN v ELSE Some(v)
\* What the container of hook h holds when there is nothing to read.
Fallback(h) == IF h = "local_default" THEN Default_T ELSE None
\* The value item stands for: the value whose serialisation it is, and the
\* default (variant A) or absent (variant B) when the key is missing or the
\* item is not the serialisation of any value of T.
Persisted(h, item) ==
    IF \E v \in Values : item = Some(Ser(v))
    THEN Held(h, CHOOSE v \in Values : item = Some(Ser(v)))
    ELSE Fallback(h)
\* The in-memory value agrees with the persisted content of the container's key.
Agree == inner = Persisted(hook, OwnItem)

\* C1 (P1 round trip, both variants): right after a set(v) whose backend write
\* succeeded, the container's value is v (present(v) for variant B) and the
\* backend holds the serialisation of v under the container's key, which reads
\* back as v.
C1_RoundTrip ==
    (last.op = "set" /\ last.res = "Ok") =>
        /\ inner = Held(hook, last.value)
        /\ OwnItem = Some(Ser(last.value))
        /\ FromStr_T(OwnItem[1]) = Ok(last.value)

C1_Witness ==
    /\ last.op = "set" /\ last.res = "Ok" /\ last.value = "x"
    /\ hook = "session_listen" /\ inner = Some("x")
    /\ storage["session"]["a"] = Some("\"x\"")

\* C2 (P7 failed write is a no-op, both variants): a set(v) whose backend write
\* fails leaves the in-memory value as it was, does not call the cell's set and
\* lets no error reach the caller.
C2_FailedSetNoOp ==
    [][(last'.op = "set" /\ last'.res # "Ok") =>
          (inner' = inner /\ cellSets' = 0 /\ raised' = FALSE)]_vars

C2_Witness ==
    /\ last.op = "set" /\ last.res = "JsError" /\ last.value = ""
    /\ hook = "local_default" /\ inner = "x" /\ cellSets = 0 /\ ~raised

\* C3 (P2 delete resets): right after delete(), whether or not the key was
\* persisted before, the value is the type default (variant A) or absent
\* (variant B), the backend holds nothing under the container's key, and no
\* error reached the caller.
C3_DeleteResets ==
    last.op = "delete" =>
        /\ inner = Fallback(hook)
        /\ OwnItem = None
        /\ raised = FALSE

C3_Witness ==
    /\ last.op = "delete" /\ ~last.had
    /\ hook = "local_default" /\ inner = "" /\ storage["local"]["a"] = None

\* C4 (P3 construction degrades silently): right after construction the value
\* is the persisted value when the key holds the serialisation of a value, and
\* the default (variant A) or absent (variant B) when the key is missing or
\* holds anything else; construction raises no error.
C4_ConstructionDegrades ==
    last.op = "construct" =>
        /\ inner = Persisted(hook, OwnItem)
        /\ raised = FALSE

C4_Witness ==
    /\ last.op = "construct" /\ hook = "local_default"
    /\ storage["local"]["a"] = Some("{bad") /\ inner = "" /\ ~raised

\* C5 (P4 key isolation): a storage event whose key is not the container's key
\* (another key, or no key), whatever its storageArea and newValue and whatever
\* the stores hold, leaves the in-memory value as it was and does not call the
\* cell's set.
C5_KeyIsolation ==
    [][(last'.op = "event" /\ last'.ev.key # Some(key)) =>
          (inner' = inner /\ cellSets' = 0)]_vars

\* An event of the container's own store for key "b" was heard while the own
\* slot held something else than the cell.
C5_Witness ==
    /\ last.op = "event" /\ Mounted /\ key = "a"
    /\ last.ev.key = Some("b") /\ last.ev.storageArea = Some(OwnStore)
    /\ inner # Persisted(hook, OwnItem)
    /\ cellSets = 0

\* C6 (P5 store-kind isolation): a storage event whose storageArea is not the
\* container's own store (the other store, or none) leaves the in-memory value
\* as it was, also when its key is the container's key and the own store holds
\* another value for it.
C6_StoreKindIsolation ==
    [][(last'.op = "event" /\ Mounted /\ last'.ev.storageArea # Some(OwnStore)) =>
          inner' = inner]_vars

C6_Witness ==
    /\ last.op = "event" /\ Mounted
    /\ last.ev.key = Some(key) /\ last.ev.storageArea = Some(OtherStore)
    /\ inner # Persisted(hook, OwnItem)

\* C7 (P6 reconciliation re-reads): right after the listener handled an event
\* with the container's key and the container's store, the value is what the
\* own store holds under the key at that moment (default / absent when the key
\* is missing or does not parse), whatever the event's newValue says.
C7_ReconciliationRereads ==
    (last.op = "event" /\ Mounted
        /\ last.ev.key = Some(key) /\ last.ev.storageArea = Some(OwnStore)) =>
        inner = Persisted(hook, OwnItem)

\* The event reported "x" as new value and the store held "" when it was heard.
C7_Witness ==
    /\ last.op = "event" /\ Mounted /\ hook = "local_default"
    /\ last.ev.key = Some(key) /\ last.ev.storageArea = Some("local")
    /\ last.ev.newValue = Some("\"x\"") /\ OwnItem = Some("\"\"")
    /\ inner = ""

\* C8, as claimed (local agreement after any local set or delete, successful
\* or failed, under any interleaving with undelivered external writes): right
\* after a local set or delete the in-memory value is the persisted one.
C8_AgreementAfterAnyLocalOp ==
    last.op \in {"set", "delete"} => Agree

\* C8, amended: right after a local set whose write succeeded, and right after
\* a local delete, the in-memory value is the persisted one, also while the
\* event of another context's write to the same key is still queued.
C8_AgreementAfterLocalWrite ==
    ((last.op = "set" /\ last.res = "Ok") \/ last.op = "delete") => Agree

\* A successful set completed while the event of an external write to the
\* container's key was waiting in the queue.
C8_Witness ==
    /\ last.op = "set" /\ last.res = "Ok" /\ Mounted /\ Agree
    /\ pending # <<>>
    /\ Head(pending).key = Some(key) /\ Head(pending).storageArea = Some(OwnStore)

\* The own store reported the event: a mutation of the container's key there
\* is reported with that key (setItem, removeItem) or with no key (clear).
OwnKeyed(e) == e.storageArea = Some(OwnStore) /\ e.key = Some(key)
OwnCleared(e) == e.storageArea = Some(OwnStore) /\ e.key = None

\* C9, as claimed (eventual agreement after any external mutation of the
\* container's key in its store): once the event of such a mutation, keyed or
\* a clear, has been handed to the listener, the in-memory value is the
\* persisted one.
C9_AgreementAfterAnyExternalMutation ==
    (last.op = "event" /\ Mounted /\ (OwnKeyed(last.ev) \/ OwnCleared(last.ev))) => Agree

\* C9, amended: while the container is mounted, a queued event that carries
\* the container's key and store leads to the in-memory value being the
\* persisted one, and from then on the two stay equal until another context
\* writes again.
C9_EventualAgreement ==
    /\ (Mounted /\ pending # <<>> /\ OwnKeyed(Head(pending))) ~> (~Mounted \/ Agree)
    /\ [][(Mounted /\ Agree /\ last'.op # "external") => Agree']_vars

\* The event of another context's setItem was heard and the cell now holds
\* the value that context wrote.
C9_Witness ==
    /\ last.op = "event" /\ Mounted /\ hook = "session_listen"
    /\ OwnKeyed(last.ev) /\ last.ev.newValue = Some("\"x\"")
    /\ OwnItem = Some("\"x\"") /\ inner = Some("x")

\* C10 (listener lifecycle): the container has exactly one "storage" listener
\* from construction on, however often the hook is rendered again, and none
\* before construction or after its scope ended; the release happens once (a
\* dropped container stays dropped), and after it no storage event calls the
\* closure, sets the cell or emits a trace.
C10_ListenerLifecycle ==
    /\ [](listeners = IF Mounted THEN 1 ELSE 0)
    /\ [][status = "dropped" => (status' = "dropped" /\ listeners' = 0)]_vars
    /\ [][(status = "dropped" /\ last'.op = "event") =>
             (inner' = inner /\ cellSets' = 0 /\ log' = <<>>)]_vars

\* A matching event arrived after the container was dropped: the store holds
\* "x" under the key and the cell was left at the default.
C10_Witness ==
    /\ status = "dropped" /\ listeners = 0 /\ hook = "local_default"
    /\ last.op = "event" /\ OwnKeyed(last.ev)
    /\ OwnItem = Some("\"x\"") /\ inner = ""

\* C11 (handle equality): the comparison of two handles of the same variant
\* is true exactly when the values the two handles observe are equal, whatever
\* their keys: over different keys with equal values they are equal, over the
\* same key with different values they are not.
C11_HandleEquality ==
    (Mounted /\ twinStatus = "mounted") =>
        LET eq == IF hook = "local_default"
                  THEN UseLocalStorageDefaultHandle_eq(Handle, TwinHandle)
                  ELSE UseSessionStorageWithListenHandle_eq(Handle, TwinHandle)
        IN  /\ eq <=> (inner = twinInner)
            /\ (key # twinKey /\ inner = twinInner) => eq
            /\ (key = twinKey /\ inner # twinInner) => ~eq

\* Two handles over different keys, both observing "x": they compare equal.
C11_Witness ==
    /\ Mounted /\ twinStatus = "mounted" /\ hook = "local_default"
    /\ key = "a" /\ twinKey = "b" /\ inner = "x" /\ twinInner = "x"
    /\ UseLocalStorageDefaultHandle_eq(Handle, TwinHandle)

\* C12 (store-cleared notification is ignored): a storage event without a key
\* causes nothing in either variant: the value stays, the cell's set is not
\* called, the backend is not read and no trace is emitted, also when the
\* event comes from the container's store and the key is no longer there.
C12_ClearedNotificationIgnored ==
    [][(last'.op = "event" /\ last'.ev.key = None) =>
          (inner' = inner /\ cellSets' = 0 /\ reads' = <<>> /\ log' = <<>>)]_vars

\* The own store was cleared by another context, the event was heard, and the
\* cell still holds "x" while the key is gone.
C12_Witness ==
    /\ last.op = "event" /\ Mounted /\ hook = "local_default"
    /\ OwnCleared(last.ev)
    /\ OwnItem = None /\ inner = "x"
    /\ cellSets = 0 /\ reads = <<>> /\ log = <<>>

\* The trace records of the last handler that warn of a key-name collision.
Warnings == {i \in DOMAIN log : log[i].level = "warn"}

\* C13, as claimed (collision warning attribution): the mounted container's
\* listener emits the collision warning exactly for the events whose key is the
\* container's key and whose storageArea is not the container's store; an
\* event for another key is ignored without a warning.
C13_CollisionWarningAttribution ==
    (last.op = "event" /\ Mounted) =>
        (Warnings # {} <=>
            (last.ev.key = Some(key) /\ last.ev.storageArea # Some(OwnStore)))

\* The value use_state's initialiser computes from the store, per variant.
InitialRead(h, k) ==
    IF h = "local_default"
    THEN UnwrapOrDefault(Flatten(ResultOk(StorageGet_OptT("local", k))), Default_T)
    ELSE ResultUnwrapOrDefault(StorageGet_OptT("session", k), None)

\* The value the listener hands to inner.set on a matching event, per variant.
ListenerRead(h, k) ==
    IF h = "local_default"
    THEN ResultUnwrapOrDefault(StorageGet_T("local", k), Default_T)
    ELSE ResultUnwrapOrDefault(StorageGet_OptT("session", k), None)

\* C14 (construction and reconciliation read identically): whatever the key
\* holds (nothing, a serialised value, null, unparsable bytes), a container
\* just constructed holds what a reconciliation against the same content would
\* give, and a container that just reconciled holds what a construction over
\* the same content would give.
C14_SameReadPath ==
    /\ last.op = "construct" => inner = ListenerRead(hook, key)
    /\ (last.op = "event" /\ Mounted /\ OwnKeyed(last.ev)) => inner = InitialRead(hook, key)
    /\ \A h \in {"local_default", "session_listen"} : InitialRead(h, "a") = ListenerRead(h, "a")

\* A container holding "x" reconciled against unparsable bytes: it holds the
\* default, as a container constructed over these bytes would.
C14_Witness ==
    /\ last.op = "event" /\ Mounted /\ hook = "local_default" /\ OwnKeyed(last.ev)
    /\ OwnItem = Some("{bad")
    /\ inner = "" /\ InitialRead(hook, key) = ""

\* C15 (reconciliation always writes the cell): every event with the
\* container's key and store makes the listener call the cell's set exactly
\* once, with the value just read from the store, also when this is the value
\* the cell already holds, and emit one info record naming the key.
C15_ReconciliationAlwaysWrites ==
    [][(last'.op = "event" /\ Mounted /\ OwnKeyed(last'.ev)) =>
          /\ cellSets' = 1
          /\ reads' = <<key>>
          /\ inner' = ListenerRead(hook, key)'
          /\ log' = <<[level |-> "info", what |-> "event", key |-> key]>>]_vars

\* A matching event was reconciled: one set of the cell with the stored "x",
\* one info record.
C15_Witness ==
    /\ last.op = "event" /\ Mounted /\ hook = "session_listen" /\ OwnKeyed(last.ev)
    /\ cellSets = 1 /\ inner = Some("x") /\ OwnItem = Some("\"x\"")
    /\ Len(log) = 1 /\ log[1].level = "info" /\ log[1].key = "a"

\* derive(Clone) / impl Clone for the handles: the clone shares inner and key
UseSessionStorageWithListenHandle_clone(self) == [inner |-> self.inner, key |-> self.key]

\* C16 (key immutability): once the container is constructed no step changes
\* its key, also a render that passes another key; a clone of the handle has
\* the same key; every backend read, the initial one included, is for that
\* key, and a set or delete changes no slot but the one of that key in the
\* own store.
C16_KeyImmutable ==
    /\ [][status # "unmounted" => key' = key]_vars
    /\ [](Mounted => UseSessionStorageWithListenHandle_clone(Handle).key = key)
    /\ [][\A i \in DOMAIN reads' : reads'[i] = key']_vars
    /\ [][last'.op \in {"set", "delete"} =>
            \A s \in StoreKinds, k \in Keys :
                storage'[s][k] # storage[s][k] => (s = OwnStore /\ k = key)]_vars

\* The hook was rendered again with key "b" and the container still has "a".
C16_Witness ==
    /\ last.op = "render" /\ last.key = "b" /\ Mounted /\ key = "a"
    /\ hook = "session_listen"

\* C19 (attributable cell changes): the value of a constructed container
\* changes only in a step that is its own successful set, its own delete, or
\* its listener handling an event with its key and store; a set or delete
\* through a second container of the same window, also over the same key,
\* leaves it as it was.
C19_AttributableChanges ==
    /\ [][(status # "unmounted" /\ inner' # inner) =>
            \/ last'.op = "set" /\ last'.res = "Ok"
            \/ last'.op = "delete"
            \/ last'.op = "event" /\ Mounted /\ OwnKeyed(last'.ev)]_vars
    /\ [][last'.op \in {"twin_construct", "twin_set", "twin_delete"} =>
            (inner' = inner /\ pending' = pending)]_vars

\* The second container, over the same key, has just stored "x": the store
\* and the second container hold "x", the first one still holds the default,
\* and no event is queued.
C19_Witness ==
    /\ last.op = "twin_set" /\ last.res = "Ok" /\ last.value = "x"
    /\ Mounted /\ twinStatus = "mounted" /\ twinKey = key /\ hook = "local_default"
    /\ OwnItem = Some("\"x\"") /\ twinInner = "x" /\ inner = ""
    /\ pending = <<>>

\* The methods of UseBTreeSetHandle that borrow the set mutably.
Mutators == {"set", "insert", "replace", "remove", "retain", "clear"}

\* C17 (collection signalling): a step of set, insert, replace, remove, retain
\* or clear calls update() exactly once, after the mutation (update() finds
\* the set as the step leaves it), also when the mutation changed nothing;
\* current() calls it never and leaves the set alone.
C17_MutatorsSignalOnce ==
    /\ [][last'.op \in Mutators =>
            signals' = <<sets'[setHandles[last'.h].inner]>>]_vars
    /\ [][(last'.op \in Mutators /\ sets' = sets) => Len(signals') = 1]_vars
    /\ [][last'.op = "current" => (signals' = <<>> /\ sets' = sets)]_vars

\* insert of an element the set already had: nothing was inserted, and
\* update() was called once.
C17_Witness ==
    /\ last.op = "insert" /\ last.ret = FALSE /\ last.arg = <<1, "q">>
    /\ Current(last.h) = {<<1, "p">>, <<2, "p">>}
    /\ Len(signals) = 1

\* C20 (one collection behind all clones): whatever was done through whichever
\* handle, all the handles see the same set and compare equal to each other.
C20_ClonesShareCollection ==
    \A h1, h2 \in DOMAIN setHandles :
        /\ setHandles[h1].inner = setHandles[h2].inner
        /\ Current(h1) = Current(h2)
        /\ UseBTreeSetHandle_eq(setHandles[h1], setHandles[h2])

\* An element was inserted through the first handle while two more handles
\* were around: the third one sees it.
C20_Witness ==
    /\ Len(setHandles) = 3
    /\ last.op = "insert" /\ last.h = 1 /\ last.ret = TRUE /\ last.arg = <<2, "p">>
    /\ <<2, "p">> \in Current(3)
    /\ UseBTreeSetHandle_eq(setHandles[3], setHandles[1])

\* C18 (connectivity observer): right after construction the cell holds the
\* platform's flag; an "online" event heard sets it to TRUE and an "offline"
\* event heard sets it to FALSE, whatever it held; so once an event was heard
\* the cell is TRUE exactly if the last one heard was "online"; and no other
\* step changes the cell.
C18_ConnectivityObserver ==
    /\ [](last.op = "construct" => online = onLine)
    /\ [][(last'.op = "net_event" /\ last'.heard) => online' = (last'.name = "online")]_vars
    /\ []((onlineStatus # "unmounted" /\ lastEvent # "none") => online = (lastEvent = "online"))
    /\ [][(onlineStatus # "unmounted" /\ online' # online) =>
            (last'.op = "net_event" /\ last'.heard)]_vars

\* "online" was heard last and the cell is TRUE, while the connectivity has
\* gone again and its "offline" event still waits in the queue.
C18_Witness ==
    /\ onlineStatus = "mounted" /\ last.op = "platform"
    /\ lastEvent = "online" /\ online = TRUE
    /\ onLine = FALSE /\ netPending = <<"offline">>
====
